---------------------------- MODULE Spec2Model ----------------------------
(***************************************************************************)
(* Problem identifiers of jutge-rs (src/src/problem.rs).                   *)
(*                                                                         *)
(* A byte is an integer 0..255.  A Rust `str` is modelled as a sequence of *)
(* characters, each character being its UTF-8 encoding (a non-empty        *)
(* sequence of bytes), so that byte length, byte indexing and character    *)
(* boundaries are those of the program.  A u32 that may leave the range of *)
(* TLC's integers is kept as two 16-bit halves.                          *)
(***************************************************************************)
EXTENDS Integers, Sequences, FiniteSets, TLC

VARIABLES pc, args, made, other, s, origin, edits, parser, res, out

vars == <<pc, args, made, other, s, origin, edits, parser, res, out>>

---------------------------------------------------------------------------
(* Bounds of the exploration *)

\* ids 0..MaxSmallId are tried besides the boundary ids
MaxSmallId == 10
\* number of single-character edits applied to an example string
MaxEdits == 2

---------------------------------------------------------------------------
(* Program constants *)

\* problem.rs:207  `if id < 1_000_000`
IdLimit == 1000000
\* problem.rs:209  `{:06}`
IdWidth == 6
\* problem.rs:147  `[u8; 7]`
UnlocalizedLen == 7
\* problem.rs:157  `[u8; 10]`
LocalizedLen == 10
\* problem.rs:254 / 283  offset of the separator
SepIndex == 7
\* problem.rs:189  b'0'
ChZero == 48
\* problem.rs:254  b'_'
ChSep == 95
\* problem.rs:37-39  'G', 'P', 'X'
ChG == 71
ChP == 80
ChX == 88

\* a u32 is kept as [hi, lo], value hi * Half + lo
Half == 2 ^ 16

---------------------------------------------------------------------------
(* Strings *)

\* an ASCII string from its bytes
Ascii(bytes) == [i \in 1..Len(bytes) |-> <<bytes[i]>>]

\* U+00E9, a two-byte character
EAcute == <<195, 169>>

RECURSIVE Flatten(_)
Flatten(str) == IF str = <<>> THEN <<>> ELSE Head(str) \o Flatten(Tail(str))

\* str::as_bytes
AsBytes(str) == Flatten(str)

\* str::len: the length in bytes
StrLen(str) == Len(AsBytes(str))

\* a UTF-8 continuation byte, 0b10xxxxxx
IsContinuation(b) == b >= 128 /\ b < 192

\* str::is_char_boundary on the bytes of a str; i is a 0-based byte offset
IsCharBoundary(bytes, i) ==
    \/ i = 0
    \/ i = Len(bytes)
    \/ (i < Len(bytes) /\ ~IsContinuation(bytes[i + 1]))

\* bytes at the 0-based offsets from..to (inclusive)
SubBytes(bytes, from, to) == [i \in 1..(to - from + 1) |-> bytes[from + i]]

\* String::from_utf8_lossy: ASCII bytes and well-formed two-byte sequences
\* are kept, any other byte becomes U+FFFD
RECURSIVE FromUtf8Lossy(_)
FromUtf8Lossy(bytes) ==
    IF bytes = <<>> THEN <<>>
    ELSE IF bytes[1] < 128 THEN <<(<<bytes[1]>>)>> \o FromUtf8Lossy(Tail(bytes))
    ELSE IF /\ bytes[1] >= 194 /\ bytes[1] < 224
            /\ Len(bytes) >= 2 /\ IsContinuation(bytes[2])
         THEN <<(<<bytes[1], bytes[2]>>)>> \o FromUtf8Lossy(Tail(Tail(bytes)))
    ELSE <<(<<239, 191, 189>>)>> \o FromUtf8Lossy(Tail(bytes))

---------------------------------------------------------------------------
(* Results *)

Ok(kind, repr) ==
    [tag |-> "Ok", kind |-> kind, repr |-> repr, err |-> "", msg |-> ""]

Err(e, m) ==
    [tag |-> "Err", kind |-> "", repr |-> <<>>, err |-> e, msg |-> m]

\* a panic (unwrap / expect / index or slice out of range)
Panic(m) ==
    [tag |-> "Panic", kind |-> "", repr |-> <<>>, err |-> "", msg |-> m]

None == [tag |-> "None", kind |-> "", repr |-> <<>>, err |-> "", msg |-> ""]

MsgTooLong == "numeric id must be at most 6 digits long"
MsgLen7 == "string should be 7 characters long"
MsgLen10 == "string should be 10 characters long"
MsgNumeric == "last 6 characters should be numeric"
MsgSep == "unexpected character in problem id"

---------------------------------------------------------------------------
(* ProblemType *)

ProblemType == {"Game", "Public", "Private"}

\* ProblemType::letter
letter(pt) ==
    CASE pt = "Game" -> ChG
      [] pt = "Public" -> ChP
      [] pt = "Private" -> ChX

\* ProblemType::is_valid_letter
is_valid_letter(ch) == ch \in {<<ChG>>, <<ChP>>, <<ChX>>}

\* TryFrom<char> for ProblemType; ch is a character (its UTF-8 bytes)
ProblemTypeTryFrom(ch) ==
    CASE ch = <<ChG>> -> [ok |-> TRUE, val |-> "Game"]
      [] ch = <<ChP>> -> [ok |-> TRUE, val |-> "Public"]
      [] ch = <<ChX>> -> [ok |-> TRUE, val |-> "Private"]
      [] OTHER -> [ok |-> FALSE, val |-> "NotAProblemType"]

---------------------------------------------------------------------------
(* ProblemLanguage *)

ProblemLanguage == {"Catalan", "English", "Spanish", "French", "German"}

code_german_misspelt(lang) ==
    CASE lang = "Catalan" -> <<99, 97>>
      [] lang = "English" -> <<101, 110>>
      [] lang = "Spanish" -> <<101, 115>>
      [] lang = "French" -> <<102, 114>>
      [] lang = "German" -> <<103, 101>>

\* ProblemLanguage::code
code(lang) ==
    CASE lang = "Catalan" -> <<99, 97>>
      [] lang = "English" -> <<101, 110>>
      [] lang = "Spanish" -> <<101, 115>>
      [] lang = "French" -> <<102, 114>>
      [] lang = "German" -> <<100, 101>>

\* TryFrom<[u8; 2]> for ProblemLanguage
ProblemLanguageTryFromCode(value) ==
    CASE value = <<99, 97>> -> [ok |-> TRUE, val |-> "Catalan"]
      [] value = <<101, 110>> -> [ok |-> TRUE, val |-> "English"]
      [] value = <<101, 115>> -> [ok |-> TRUE, val |-> "Spanish"]
      [] value = <<102, 114>> -> [ok |-> TRUE, val |-> "French"]
      [] value = <<100, 101>> -> [ok |-> TRUE, val |-> "German"]
      [] OTHER -> [ok |-> FALSE, val |-> "NotAProblemLanguage"]

\* TryFrom<&[u8]> for ProblemLanguage
ProblemLanguageTryFromSlice(value) ==
    IF Len(value) # 2 THEN [ok |-> FALSE, val |-> "NotAProblemLanguage"]
    ELSE ProblemLanguageTryFromCode(<<value[1], value[2]>>)

---------------------------------------------------------------------------
(* u32 and u8 arithmetic *)

\* the u32 of an integer 0 <= n < 2^31
U32(n) == [hi |-> n \div Half, lo |-> n % Half]

\* acc * 10 + x on u32, x < 256: the wrapped value and whether it overflowed
MulAdd10(acc, x) ==
    LET lo2 == acc.lo * 10 + x
        hi2 == acc.hi * 10 + (lo2 \div Half)
    IN  [val |-> [hi |-> hi2 % Half, lo |-> lo2 % Half], overflow |-> hi2 >= Half]

\* x - b'0' on u8: the wrapped value and whether it overflowed
SubZero(b) ==
    IF b >= ChZero THEN [val |-> b - ChZero, overflow |-> FALSE]
    ELSE [val |-> b + 256 - ChZero, overflow |-> TRUE]

---------------------------------------------------------------------------
(* Formatting and parsing of numbers *)

\* <u32 as Display>: the decimal digits, most significant first
RECURSIVE Digits(_)
Digits(n) ==
    IF n < 10 THEN <<ChZero + n>>
    ELSE Digits(n \div 10) \o <<ChZero + (n % 10)>>

\* padding on the left up to a minimum width (never truncates)
PadLeft(bytes, width, fill) ==
    IF Len(bytes) >= width THEN bytes
    ELSE [i \in 1..(width - Len(bytes)) |-> fill] \o bytes

FormatIdSpacePadded(id) == PadLeft(Digits(id), IdWidth, 32)

\* format!("{:06}", id)
FormatId(id) == PadLeft(Digits(id), IdWidth, ChZero)

IsDigit(b) == b >= ChZero /\ b <= ChZero + 9

RECURSIVE Accumulate(_, _)
Accumulate(bytes, acc) ==
    IF bytes = <<>> THEN [ok |-> TRUE, val |-> acc]
    ELSE IF ~IsDigit(bytes[1]) THEN [ok |-> FALSE, val |-> 0]
    ELSE Accumulate(Tail(bytes), acc * 10 + (bytes[1] - ChZero))

\* <u32 as FromStr>::from_str (radix 10).  An empty string, a lone sign
\* ('+' is 43, '-' is 45) and any non-digit fail; one leading '+' is skipped;
\* '-' is no sign of an unsigned type.  The parsers pass six bytes, which
\* cannot overflow a u32.
ParseU32(bytes) ==
    IF bytes = <<>> THEN [ok |-> FALSE, val |-> 0]
    ELSE IF Len(bytes) = 1 /\ bytes[1] \in {43, 45}
         THEN [ok |-> FALSE, val |-> 0]
    ELSE IF bytes[1] = 43 THEN Accumulate(Tail(bytes), 0)
    ELSE Accumulate(bytes, 0)

---------------------------------------------------------------------------
(* ProblemId *)

\* `b as char`: the character with code point b, as UTF-8
CharOfByte(b) == IF b < 128 THEN <<b>> ELSE <<192 + (b \div 64), 128 + (b % 64)>>

\* ProblemId::problem_type
problem_type(repr) ==
    LET pt == ProblemTypeTryFrom(CharOfByte(repr[1]))
    IN  IF pt.ok THEN [tag |-> "Ok", val |-> pt.val]
        ELSE [tag |-> "Panic", val |-> "Problem ID first char should represent a Problem Type!"]

RECURSIVE FoldId(_, _, _)
FoldId(bytes, acc, checks) ==
    IF bytes = <<>> THEN [tag |-> "Ok", val |-> acc]
    ELSE LET d == SubZero(bytes[1])
             m == MulAdd10(acc, d.val)
         IN  IF checks /\ (d.overflow \/ m.overflow)
             THEN [tag |-> "Panic", val |-> U32(0)]
             ELSE FoldId(Tail(bytes), m.val, checks)

\* ProblemId::problem_id: folds acc * 10 + (x - b'0') over every byte of
\* the representation.  checks: whether the build has overflow checks
\* (then an overflow panics, otherwise it wraps)
problem_id(repr, checks) == FoldId(repr, U32(0), checks)

\* <ProblemId as Display>::fmt
to_string(repr) == FromUtf8Lossy(repr)

new_unlocalized_inclusive(pt, id) ==
    IF id <= IdLimit
    THEN LET bytes == <<letter(pt)>> \o FormatId(id)
         IN  IF Len(bytes) = UnlocalizedLen THEN Ok("Unlocalized", bytes)
             ELSE Panic("String should be 7 bytes long!")
    ELSE Err("InvalidProblemId", MsgTooLong)

\* ProblemId::new_unlocalized
new_unlocalized(pt, id) ==
    IF id < IdLimit
    THEN LET bytes == <<letter(pt)>> \o FormatId(id)
         IN  IF Len(bytes) = UnlocalizedLen THEN Ok("Unlocalized", bytes)
             ELSE Panic("String should be 7 bytes long!")
    ELSE Err("InvalidProblemId", MsgTooLong)

\* ProblemId::new_localized
new_localized(pt, id, lang) ==
    LET unlocalized == new_unlocalized(pt, id)
    IN  IF unlocalized.tag # "Ok" THEN unlocalized
        ELSE Ok("Localized", unlocalized.repr \o <<ChSep>> \o code(lang))

\* ProblemId::language
language(repr) ==
    LET lang == ProblemLanguageTryFromCode(<<repr[9], repr[10]>>)
    IN  IF lang.ok THEN [tag |-> "Ok", val |-> lang.val]
        ELSE [tag |-> "Panic", val |-> "Problem id last two chars should represent a problem language"]

\* whether &s[from..=to] is a valid slice of a str with these bytes
SliceOk(bytes, from, to) ==
    /\ from <= to + 1
    /\ to + 1 <= Len(bytes)
    /\ IsCharBoundary(bytes, from)
    /\ IsCharBoundary(bytes, to + 1)

from_str_unlocalized_shorter(str) ==
    LET bytes == AsBytes(str)
    IN  IF Len(bytes) < UnlocalizedLen THEN Err("InvalidProblemId", MsgLen7)
        ELSE IF str = <<>> THEN Panic("called Option::unwrap on a None value")
        ELSE LET pt == ProblemTypeTryFrom(str[1])
             IN  IF ~pt.ok THEN Err(pt.val, "")
                 ELSE IF ~SliceOk(bytes, 1, IdWidth) THEN Panic("byte index is not a char boundary")
                 ELSE LET id == ParseU32(SubBytes(bytes, 1, IdWidth))
                      IN  IF ~id.ok THEN Err("InvalidProblemId", MsgNumeric)
                          ELSE new_unlocalized(pt.val, id.val)

\* <ProblemId<Unlocalized> as FromStr>::from_str
from_str_unlocalized(str) ==
    LET bytes == AsBytes(str)
    IN  IF Len(bytes) # UnlocalizedLen THEN Err("InvalidProblemId", MsgLen7)
        ELSE IF str = <<>> THEN Panic("called Option::unwrap on a None value")
        ELSE LET pt == ProblemTypeTryFrom(str[1])
             IN  IF ~pt.ok THEN Err(pt.val, "")
                 ELSE IF ~SliceOk(bytes, 1, IdWidth) THEN Panic("byte index is not a char boundary")
                 ELSE LET id == ParseU32(SubBytes(bytes, 1, IdWidth))
                      IN  IF ~id.ok THEN Err("InvalidProblemId", MsgNumeric)
                          ELSE new_unlocalized(pt.val, id.val)

from_str_localized_unchecked_len(str) ==
    LET bytes == AsBytes(str)
    IN  IF Len(bytes) <= SepIndex THEN Panic("index out of bounds")
        ELSE IF bytes[SepIndex + 1] # ChSep THEN Err("InvalidProblemId", MsgSep)
        ELSE IF str = <<>> THEN Panic("called Option::unwrap on a None value")
        ELSE LET pt == ProblemTypeTryFrom(str[1])
             IN  IF ~pt.ok THEN Err(pt.val, "")
                 ELSE IF ~SliceOk(bytes, 1, IdWidth) THEN Panic("byte index is not a char boundary")
                 ELSE LET id == ParseU32(SubBytes(bytes, 1, IdWidth))
                      IN  IF ~id.ok THEN Err("InvalidProblemId", MsgNumeric)
                          ELSE IF Len(bytes) < LocalizedLen THEN Panic("range end index out of range")
                          ELSE LET lang == ProblemLanguageTryFromSlice(
                                               SubBytes(bytes, SepIndex + 1, SepIndex + 2))
                               IN  IF ~lang.ok THEN Err(lang.val, "")
                                   ELSE new_localized(pt.val, id.val, lang.val)

\* <ProblemId<Localized> as FromStr>::from_str
from_str_localized(str) ==
    LET bytes == AsBytes(str)
    IN  IF Len(bytes) # LocalizedLen THEN Err("InvalidProblemId", MsgLen10)
        ELSE IF Len(bytes) <= SepIndex THEN Panic("index out of bounds")
        ELSE IF bytes[SepIndex + 1] # ChSep THEN Err("InvalidProblemId", MsgSep)
        ELSE IF str = <<>> THEN Panic("called Option::unwrap on a None value")
        ELSE LET pt == ProblemTypeTryFrom(str[1])
             IN  IF ~pt.ok THEN Err(pt.val, "")
                 ELSE IF ~SliceOk(bytes, 1, IdWidth) THEN Panic("byte index is not a char boundary")
                 ELSE LET id == ParseU32(SubBytes(bytes, 1, IdWidth))
                      IN  IF ~id.ok THEN Err("InvalidProblemId", MsgNumeric)
                          ELSE IF Len(bytes) < LocalizedLen THEN Panic("range end index out of range")
                          ELSE LET lang == ProblemLanguageTryFromSlice(
                                               SubBytes(bytes, SepIndex + 1, SepIndex + 2))
                               IN  IF ~lang.ok THEN Err(lang.val, "")
                                   ELSE new_localized(pt.val, id.val, lang.val)

---------------------------------------------------------------------------
(* Ordering and equality *)

\* the comparison traits the kind markers Unlocalized and Localized
\* implement: the two structs carry no derive attribute
MarkerTraits(kind) == {}

\* <[u8; N] as Ord>::cmp: lexicographic on the bytes
RECURSIVE LexCmp(_, _)
LexCmp(a, b) ==
    IF a = <<>> /\ b = <<>> THEN "Equal"
    ELSE IF a = <<>> THEN "Less"
    ELSE IF b = <<>> THEN "Greater"
    ELSE IF a[1] < b[1] THEN "Less"
    ELSE IF a[1] > b[1] THEN "Greater"
    ELSE LexCmp(Tail(a), Tail(b))

\* derive(PartialOrd, Ord) on ProblemId<T>: `impl<T: Ord + ProblemIdType>
\* Ord for ProblemId<T>`, which compares the wrapped marker values.  It
\* applies to no id whose marker does not implement Ord: the comparison is
\* then rejected at compile time ("Unavailable").
cmp(a, b) ==
    IF "Ord" \in MarkerTraits(a.kind)
    THEN [tag |-> "Ok", val |-> LexCmp(a.repr, b.repr)]
    ELSE [tag |-> "Unavailable", val |-> ""]

\* derive(PartialEq, Eq) on ProblemId<T>, likewise bounded by T: PartialEq
eq(a, b) ==
    IF "PartialEq" \in MarkerTraits(a.kind)
    THEN [tag |-> "Ok", val |-> (a.repr = b.repr)]
    ELSE [tag |-> "Unavailable", val |-> FALSE]

---------------------------------------------------------------------------
(* The callers: a session constructs an id or takes a string, and applies  *)
(* the operations of the library to it                                     *)

\* numeric ids given to the constructors
Ids == (0..MaxSmallId) \cup {42, 99999, 100000, IdLimit - 1, IdLimit, IdLimit + 1}

\* the strings given to the parsers: the examples of the documentation ...
Examples == {
    <<>>,                                                       \* ""
    Ascii(<<80, 52, 50>>),                                      \* "P42"
    Ascii(<<80, 48, 48, 48, 48, 52, 50, 48, 48>>),              \* "P00004200"
    Ascii(<<80, 48, 48, 48, 48, 52, 50>>),                      \* "P000042"
    Ascii(<<71, 48, 48, 48, 48, 48, 48>>),                      \* "G000000"
    Ascii(<<90, 48, 48, 48, 48, 52, 50>>),                      \* "Z000042"
    Ascii(<<80, 48, 48, 48, 48, 52, 50, 95, 101, 110>>),        \* "P000042_en"
    Ascii(<<88, 48, 48, 48, 48, 48, 55, 95, 99, 97>>),          \* "X000007_ca"
    Ascii(<<80, 48, 48, 48, 48, 52, 50, 88, 101, 110>>),        \* "P000042Xen"
    Ascii(<<80, 48, 48, 48, 48, 52, 50, 95, 120, 120>>) }       \* "P000042_xx"

\* ... and strings of 7 and 10 bytes that hold a two-byte character
MultiByte == {
    <<EAcute>> \o Ascii(<<48, 48, 48, 48, 48>>),                \* 7 bytes
    Ascii(<<80, 48, 48, 48, 48>>) \o <<EAcute>>,                \* 7 bytes
    <<EAcute>> \o Ascii(<<48, 48, 48, 48, 48, 95, 101, 110>>),  \* 10 bytes
    Ascii(<<80, 48, 48, 48, 48>>) \o <<EAcute>> \o Ascii(<<95, 101, 110>>) }

Literals == Examples \cup MultiByte

\* the characters an edit writes: 'Z', '5', '_', '+', '-', ' ' and U+00E9
EditChars == {<<90>>, <<53>>, <<95>>, <<43>>, <<45>>, <<32>>, EAcute}

NoArgs == [ctor |-> "", pt |-> "", id |-> 0, lang |-> ""]
NoOut == [op |-> "", tag |-> "", val |-> "", num |-> [hi |-> 0, lo |-> 0], flag |-> FALSE]
NoOther == [args |-> NoArgs, made |-> None]

\* what an operation returned to the caller: a name (val), a u32 (num) or
\* a bool (flag)
Returned(op, r) ==
    [NoOut EXCEPT !.op = op, !.tag = r.tag, !.val = r.val]

ReturnedNum(op, r) ==
    [NoOut EXCEPT !.op = op, !.tag = r.tag, !.num = r.val]

ReturnedFlag(op, r) ==
    [NoOut EXCEPT !.op = op, !.tag = r.tag, !.flag = r.val]

\* the id the accessors read: the parsed one after a parse, else the made one
Cur == IF pc = "parsed" THEN res ELSE made

Init ==
    /\ pc = "idle"
    /\ args = NoArgs
    /\ made = None
    /\ other = NoOther
    /\ s = <<>>
    /\ origin = ""
    /\ edits = 0
    /\ parser = ""
    /\ res = None
    /\ out = NoOut

\* ProblemId::new_unlocalized(pt, id), as a first id or as the second of a pair
NewUnlocalized(pt, id) ==
    /\ pc \in {"idle", "kept"}
    /\ pc' = IF pc = "idle" THEN "made" ELSE "pair"
    /\ args' = [ctor |-> "new_unlocalized", pt |-> pt, id |-> id, lang |-> ""]
    /\ made' = new_unlocalized(pt, id)
    /\ UNCHANGED <<other, s, origin, edits, parser, res, out>>

\* ProblemId::new_localized(pt, id, lang)
NewLocalized(pt, id, lang) ==
    /\ pc = "idle"
    /\ pc' = "made"
    /\ args' = [ctor |-> "new_localized", pt |-> pt, id |-> id, lang |-> lang]
    /\ made' = new_localized(pt, id, lang)
    /\ UNCHANGED <<other, s, origin, edits, parser, res, out>>

\* the caller keeps an unlocalized id to compare it with a second one
Keep ==
    /\ pc = "made"
    /\ made.tag = "Ok"
    /\ made.kind = "Unlocalized"
    /\ out = NoOut
    /\ other' = [args |-> args, made |-> made]
    /\ pc' = "kept"
    /\ UNCHANGED <<args, made, s, origin, edits, parser, res, out>>

\* other.cmp(&made)
Compare ==
    /\ pc = "pair"
    /\ made.tag = "Ok"
    /\ out = NoOut
    /\ out' = Returned("cmp", cmp(other.made, made))
    /\ UNCHANGED <<pc, args, made, other, s, origin, edits, parser, res>>

\* other == made
Equals ==
    /\ pc = "pair"
    /\ made.tag = "Ok"
    /\ out = NoOut
    /\ out' = ReturnedFlag("eq", eq(other.made, made))
    /\ UNCHANGED <<pc, args, made, other, s, origin, edits, parser, res>>

\* made.to_string()
Display ==
    /\ pc = "made"
    /\ made.tag = "Ok"
    /\ out = NoOut
    /\ s' = to_string(made.repr)
    /\ origin' = "display"
    /\ edits' = 0
    /\ pc' = "text"
    /\ UNCHANGED <<args, made, other, parser, res, out>>

\* the caller takes a string of its own
Literal(l) ==
    /\ pc = "idle"
    /\ s' = l
    /\ origin' = "literal"
    /\ edits' = 0
    /\ pc' = "text"
    /\ UNCHANGED <<args, made, other, parser, res, out>>

\* the caller replaces the i-th character of its string
Substitute(i, ch) ==
    /\ pc = "text"
    /\ origin = "literal"
    /\ edits < MaxEdits
    /\ i \in 1..Len(s)
    /\ s[i] # ch
    /\ s' = [s EXCEPT ![i] = ch]
    /\ edits' = edits + 1
    /\ UNCHANGED <<pc, args, made, other, origin, parser, res, out>>

\* the caller removes the i-th character of its string
Delete(i) ==
    /\ pc = "text"
    /\ origin = "literal"
    /\ edits < MaxEdits
    /\ i \in 1..Len(s)
    /\ s' = SubSeq(s, 1, i - 1) \o SubSeq(s, i + 1, Len(s))
    /\ edits' = edits + 1
    /\ UNCHANGED <<pc, args, made, other, origin, parser, res, out>>

\* s.parse::<ProblemId<Unlocalized>>()
FromStrUnlocalized ==
    /\ pc = "text"
    /\ res' = from_str_unlocalized(s)
    /\ parser' = "Unlocalized"
    /\ pc' = "parsed"
    /\ UNCHANGED <<args, made, other, s, origin, edits, out>>

\* s.parse::<ProblemId<Localized>>()
FromStrLocalized ==
    /\ pc = "text"
    /\ res' = from_str_localized(s)
    /\ parser' = "Localized"
    /\ pc' = "parsed"
    /\ UNCHANGED <<args, made, other, s, origin, edits, out>>

\* id.problem_type()
ProblemTypeOf ==
    /\ pc \in {"made", "parsed"}
    /\ Cur.tag = "Ok"
    /\ out = NoOut
    /\ out' = Returned("problem_type", problem_type(Cur.repr))
    /\ UNCHANGED <<pc, args, made, other, s, origin, edits, parser, res>>

\* id.problem_id(), in a build with or without overflow checks
ProblemIdOf(checks) ==
    /\ pc \in {"made", "parsed"}
    /\ Cur.tag = "Ok"
    /\ out = NoOut
    /\ out' = ReturnedNum("problem_id", problem_id(Cur.repr, checks))
    /\ UNCHANGED <<pc, args, made, other, s, origin, edits, parser, res>>

\* id.language(), which only a localized id has
LanguageOf ==
    /\ pc \in {"made", "parsed"}
    /\ Cur.tag = "Ok"
    /\ Cur.kind = "Localized"
    /\ out = NoOut
    /\ out' = Returned("language", language(Cur.repr))
    /\ UNCHANGED <<pc, args, made, other, s, origin, edits, parser, res>>

Next ==
    \/ \E pt \in ProblemType, id \in Ids : NewUnlocalized(pt, id)
    \/ \E pt \in ProblemType, id \in Ids, lang \in ProblemLanguage :
           NewLocalized(pt, id, lang)
    \/ Keep
    \/ Compare
    \/ Equals
    \/ Display
    \/ \E l \in Literals : Literal(l)
    \/ \E i \in 1..LocalizedLen, ch \in EditChars : Substitute(i, ch)
    \/ \E i \in 1..LocalizedLen : Delete(i)
    \/ FromStrUnlocalized
    \/ FromStrLocalized
    \/ ProblemTypeOf
    \/ \E checks \in BOOLEAN : ProblemIdOf(checks)
    \/ LanguageOf

Spec == Init /\ [][Next]_vars

---------------------------------------------------------------------------
(* Auxiliary definitions of the properties *)

\* a constructor has produced `made`
MadeBy(ctor) == pc \in {"made", "text", "parsed"} /\ args.ctor = ctor

\* the letters and codes as the documentation gives them
DocLetter(pt) == IF pt = "Game" THEN 71 ELSE IF pt = "Public" THEN 80 ELSE 88
DocCodes == {<<99, 97>>, <<101, 110>>, <<101, 115>>, <<102, 114>>, <<100, 101>>}
DocCodeName(c) ==
    CASE c = <<99, 97>> -> "Catalan"
      [] c = <<101, 110>> -> "English"
      [] c = <<101, 115>> -> "Spanish"
      [] c = <<102, 114>> -> "French"
      [] c = <<100, 101>> -> "German"
DocCode(lang) ==
    CASE lang = "Catalan" -> <<99, 97>>
      [] lang = "English" -> <<101, 110>>
      [] lang = "Spanish" -> <<101, 115>>
      [] lang = "French" -> <<102, 114>>
      [] lang = "German" -> <<100, 101>>

\* the letter followed by the six decimal digits of id, by position
Canonical(pt, id) ==
    <<DocLetter(pt)>> \o [i \in 1..6 |-> 48 + ((id \div (10 ^ (6 - i))) % 10)]

AsciiDigit(ch) == Len(ch) = 1 /\ ch[1] >= 48 /\ ch[1] <= 57

\* the characters 2-7 of a string are all ASCII digits
DigitSegment(str) == \A i \in 2..7 : AsciiDigit(str[i])

HasMultiByte(str) == \E i \in 1..Len(str) : Len(str[i]) > 1

\* byte 0 a type letter, bytes 1-6 digits, and for a localized id
\* '_' and a language code
WellFormed(r) ==
    /\ r.kind \in {"Unlocalized", "Localized"}
    /\ Len(r.repr) = IF r.kind = "Unlocalized" THEN 7 ELSE 10
    /\ r.repr[1] \in {71, 80, 88}
    /\ \A i \in 2..7 : r.repr[i] >= 48 /\ r.repr[i] <= 57
    /\ r.kind = "Localized" =>
           /\ r.repr[8] = 95
           /\ <<r.repr[9], r.repr[10]>> \in DocCodes

---------------------------------------------------------------------------
(* Properties *)

\* C1: on an id made by new_unlocalized(t, id), problem_id() returns id (the
\* type letter does not contribute) and problem_type() returns t.
C1_AccessorsRecoverInputs ==
    (MadeBy("new_unlocalized") /\ pc = "made" /\ made.tag = "Ok") =>
        /\ out.op = "problem_id" => (out.tag = "Ok" /\ out.num = U32(args.id))
        /\ out.op = "problem_type" => (out.tag = "Ok" /\ out.val = args.pt)

\* C2: on an id made by new_localized(t, id, lang), problem_id() returns id,
\* the separator and the language code do not contribute, and the
\* accumulation never overflows a u32.
C2_LocalizedNumericId ==
    (MadeBy("new_localized") /\ pc = "made" /\ made.tag = "Ok"
        /\ out.op = "problem_id") =>
        /\ out.tag = "Ok"
        /\ out.num = U32(args.id)
        /\ problem_id(made.repr, TRUE).tag = "Ok"

\* C3: parsing the string form of a constructed id with the parser of its
\* kind succeeds and yields the same bytes; a reparsed localized id has the
\* language and the type it was made with.
C3_RoundTrip ==
    (pc = "parsed" /\ origin = "display" /\ parser = made.kind) =>
        /\ res.tag = "Ok"
        /\ res.kind = made.kind
        /\ res.repr = made.repr
        /\ made.kind = "Localized" =>
               /\ language(res.repr) = [tag |-> "Ok", val |-> args.lang]
               /\ problem_type(res.repr) = [tag |-> "Ok", val |-> args.pt]

C3_Witness ==
    /\ pc = "parsed" /\ origin = "display" /\ parser = "Localized"
    /\ made.kind = "Localized" /\ args.id = 42 /\ args.lang = "German"
    /\ res.tag = "Ok"

\* C4: new_unlocalized(t, id) fails with InvalidProblemId iff id >= 1_000_000
\* and otherwise is t's letter followed by id zero-padded to 6 digits;
\* new_localized(t, id, lang) fails exactly when new_unlocalized(t, id) does,
\* with the same error, and otherwise is that prefix, '_' and lang's code.
C4_Constructors ==
    /\ (args.ctor = "new_unlocalized") =>
           /\ made = IF args.id < 1000000
                     THEN Ok("Unlocalized", Canonical(args.pt, args.id))
                     ELSE Err("InvalidProblemId", MsgTooLong)
           /\ (args.pt = "Public" /\ args.id = 42) =>
                  made.repr = <<80, 48, 48, 48, 48, 52, 50>>
           /\ (args.pt = "Game" /\ args.id = 0) =>
                  made.repr = <<71, 48, 48, 48, 48, 48, 48>>
    /\ (args.ctor = "new_localized") =>
           /\ made = IF args.id < 1000000
                     THEN Ok("Localized", Canonical(args.pt, args.id) \o <<95>>
                                              \o DocCode(args.lang))
                     ELSE Err("InvalidProblemId", MsgTooLong)
           /\ (made.tag = "Ok") <=> (new_unlocalized(args.pt, args.id).tag = "Ok")
           /\ (made.tag # "Ok") => made = new_unlocalized(args.pt, args.id)
           /\ (args.pt = "Private" /\ args.id = 7 /\ args.lang = "Catalan") =>
                  made.repr = <<88, 48, 48, 48, 48, 48, 55, 95, 99, 97>>

C4_Witness ==
    /\ pc = "pair"
    /\ args.id = 1000000 /\ made.tag = "Err"
    /\ other.args.id = 999999 /\ other.made.tag = "Ok"

\* C5: every id a constructor or a parser returns is well formed, and
\* problem_type() and language() never panic on it.
C5_Representation ==
    /\ \A r \in {made, res, other.made} :
           r.tag = "Ok" =>
               /\ WellFormed(r)
               /\ problem_type(r.repr).tag = "Ok"
               /\ r.kind = "Localized" => language(r.repr).tag = "Ok"
    /\ out.op \in {"problem_type", "language"} => out.tag = "Ok"

C5_Witness ==
    /\ pc = "parsed" /\ parser = "Localized" /\ edits > 0
    /\ res.tag = "Ok" /\ out.op = "language"

\* C6: a string of length 7 that starts with 'G', 'P' or 'X' parses as an
\* unlocalized id iff its characters 2-7 are all ASCII digits, and fails
\* with InvalidProblemId otherwise; likewise for the offsets 1-6 of a
\* 10-byte string with a type letter, the separator and a language code.
C6_DigitsOnly ==
    /\ (pc = "parsed" /\ parser = "Unlocalized" /\ Len(s) = 7
            /\ s[1] \in {<<71>>, <<80>>, <<88>>}) =>
           /\ res.tag = "Ok" <=> DigitSegment(s)
           /\ ~DigitSegment(s) => (res.tag = "Err" /\ res.err = "InvalidProblemId")
    /\ (pc = "parsed" /\ parser = "Localized" /\ Len(s) = 10
            /\ s[1] \in {<<71>>, <<80>>, <<88>>} /\ s[8] = <<95>>
            /\ s[9] \o s[10] \in DocCodes) =>
           /\ res.tag = "Ok" <=> DigitSegment(s)
           /\ ~DigitSegment(s) => (res.tag = "Err" /\ res.err = "InvalidProblemId")

\* C7 as stated, the length counted in characters: a string that is not 7
\* characters long fails with the length reason, one of 7 characters whose
\* first is no type letter fails with NotAProblemType, and no string fails
\* with the range error of new.
C7_LengthInCharacters ==
    (pc = "parsed" /\ parser = "Unlocalized") =>
        /\ Len(s) # 7 => res = Err("InvalidProblemId", MsgLen7)
        /\ (Len(s) = 7 /\ s[1] \notin {<<71>>, <<80>>, <<88>>}) =>
               res = Err("NotAProblemType", "")
        /\ ~(res.tag = "Err" /\ res.msg = MsgTooLong)

\* C7, amended: the same with the length counted in bytes of the UTF-8
\* encoding.
C7_LengthInBytes ==
    (pc = "parsed" /\ parser = "Unlocalized") =>
        /\ StrLen(s) # 7 => res = Err("InvalidProblemId", MsgLen7)
        /\ (StrLen(s) = 7 /\ s[1] \notin {<<71>>, <<80>>, <<88>>}) =>
               res = Err("NotAProblemType", "")
        /\ ~(res.tag = "Err" /\ res.msg = MsgTooLong)

C7_Witness ==
    /\ pc = "parsed" /\ parser = "Unlocalized"
    /\ StrLen(s) = 7 /\ Len(s) = 6 /\ HasMultiByte(s)
    /\ res = Err("NotAProblemType", "")

\* C8: the localized parser checks, in this order, the length, the
\* separator, the type letter, the numeric segment and the language code;
\* the first failing check decides the error, and the parse succeeds when
\* none fails.
C8_CheckOrder ==
    (pc = "parsed" /\ parser = "Localized") =>
        LET b == AsBytes(s)
        IN  IF Len(b) # 10 THEN res.tag = "Err" /\ res.err = "InvalidProblemId"
            ELSE IF b[8] # 95 THEN res.tag = "Err" /\ res.err = "InvalidProblemId"
            ELSE IF b[1] \notin {71, 80, 88}
                 THEN res.tag = "Err" /\ res.err = "NotAProblemType"
            ELSE IF \E i \in 2..7 : b[i] < 48 \/ b[i] > 57
                 THEN res.tag = "Err" /\ res.err = "InvalidProblemId"
            ELSE IF <<b[9], b[10]>> \notin DocCodes
                 THEN res.tag = "Err" /\ res.err = "NotAProblemLanguage"
            ELSE /\ res.tag = "Ok"
                 /\ language(res.repr).val = DocCodeName(<<b[9], b[10]>>)

\* C9: unlocalized ids compare as their bytes do, which is by type letter
\* ('G' < 'P' < 'X') and then by numeric id; they are equal iff type and
\* numeric id are.
C9_Ordering ==
    (pc = "pair" /\ made.tag = "Ok") =>
        LET t1 == other.args.pt
            t2 == args.pt
            id1 == other.args.id
            id2 == args.id
        IN  /\ out.op = "cmp" =>
                /\ out.tag = "Ok"
                /\ out.val = "Less" <=>
                       \/ DocLetter(t1) < DocLetter(t2)
                       \/ (t1 = t2 /\ id1 < id2)
                /\ out.val = LexCmp(other.made.repr, made.repr)
            /\ out.op = "eq" =>
                /\ out.tag = "Ok"
                /\ out.flag <=> (t1 = t2 /\ id1 = id2)

\* C10: both parsers return Ok or Err on every string; neither panics.
C10_ParsersTotal ==
    pc = "parsed" => res.tag \in {"Ok", "Err"}

C10_Witness ==
    /\ pc = "parsed" /\ parser = "Localized" /\ res.tag = "Err"
    /\ StrLen(s) = 10 /\ HasMultiByte(s) /\ AsBytes(s)[8] = 95
    /\ s[1] = <<80>> /\ res.msg = MsgNumeric

=============================================================================
